---- MODULE Spec2Model ----
(***************************************************************************)
(* Model of neopixel.py: a simulated NeoPixel strip (Adafruit_NeoPixel),   *)
(* the Simulation thread that owns the wx application, and the Frame that  *)
(* redraws the published pixel snapshot on a timer.                        *)
(*                                                                         *)
(* Two threads are modelled: the caller (the application that uses the     *)
(* strip) and the Viewer (Simulation.run and the wx main loop).  Python    *)
(* lists are objects: the snapshot lists made by show() live in `heap`     *)
(* and `displayed`, `pixels` and the value returned by getDisplayed() are  *)
(* references (positions in `heap`).  Python list positions are 0-based;   *)
(* position n of a list is element n + 1 of the TLA+ sequence.             *)
(***************************************************************************)
EXTENDS Integers, Sequences, FiniteSets, TLC

\* ---------------------------------------------------------------- bounds
\* Largest strip the constructor is called with.
MaxPixels == 2
\* Number of calls the caller makes on the strip.
MaxCalls == 4

\* ------------------------------------------------------ pure functions

\* 2^k
RECURSIVE Pow2(_)
Pow2(k) == IF k = 0 THEN 1 ELSE 2 * Pow2(k - 1)

\* x << k on Python integers
Shl(x, k) == x * Pow2(k)

\* x >> k on Python integers (floor)
Shr(x, k) == x \div Pow2(k)

\* a | b on non-negative Python integers
RECURSIVE BitOr(_, _)
BitOr(a, b) ==
    IF a = 0 THEN b
    ELSE IF b = 0 THEN a
    ELSE (IF (a % 2 = 1) \/ (b % 2 = 1) THEN 1 ELSE 0)
         + 2 * BitOr(a \div 2, b \div 2)

\* a & 0xff
AndFF(a) == a % 256

\* A packing with red and blue exchanged.
ColorSwapped(red, green, blue, white) ==
    BitOr(BitOr(BitOr(Shl(white, 24), Shl(blue, 16)), Shl(green, 8)), red)

\* Color(red, green, blue, white)
Color(red, green, blue, white) ==
    BitOr(BitOr(BitOr(Shl(white, 24), Shl(red, 16)), Shl(green, 8)), blue)

\* wx.Colour(r, g, b) is modelled as the triple <<r, g, b>>.
Colour(r, g, b) == <<r, g, b>>

\* A decoding without the mask on the red byte: white leaks into red.
DecodeUnmasked(c) == Colour(Shr(c, 16), AndFF(Shr(c, 8)), AndFF(c))

\* The element expression of the comprehension in show().
Decode(c) == Colour(AndFF(Shr(c, 16)), AndFF(Shr(c, 8)), AndFF(c))

\* Python list indexing: list[n] raises IndexError unless -len <= n < len,
\* and a negative n counts from the end.
InRange(list, n) == (n >= -Len(list)) /\ (n < Len(list))

\* The TLA+ position of list[n], for n in range.
Pos(list, n) == IF n < 0 THEN n + Len(list) + 1 ELSE n + 1

\* list[n] = v
ListSet(list, n, v) == [list EXCEPT ![Pos(list, n)] = v]

\* list[n]
ListGet(list, n) == list[Pos(list, n)]

\* [v] * num
Repeat(v, num) == [k \in 1..num |-> v]

\* ------------------------------------------------------------- inputs

\* Pixel positions the caller passes: every position of the strip, the
\* negative positions that count from its end, and one past either end.
Indices == -(MaxPixels + 1) .. MaxPixels

\* Packed colours passed to setPixelColor: 0x090000FF (white 9, blue 255).
PackedInputs == {150995199}

\* <<red, green, blue, white>> passed to setPixelColorRGB.
ChannelInputs == {<<10, 20, 30, 0>>, <<0, 255, 0, 7>>}

\* -------------------------------------------------------------- state

VARIABLES
    buffer,        \* Adafruit_NeoPixel._buffer: the raw packed colours
    heap,          \* the snapshot list objects made so far, by reference
    displayed,     \* Adafruit_NeoPixel._displayed: a reference into heap
    lock,          \* Adafruit_NeoPixel._lock: "free", "caller" or "viewer"
    hasSim,        \* the strip has a _sim attribute (begin() was called)
    initialized,   \* Simulation._initialized
    hasFrame,      \* the Simulation has a _frame attribute
    need_update,   \* Frame._need_update
    need_resize,   \* Frame._need_resize
    cpc,           \* the caller's position inside a call ("idle" between calls)
    tmp,           \* the list the comprehension in show() is building
    lastCall,      \* the caller's last completed call, its arguments and outcome
    vpc,           \* the Viewer thread's position
    vret,          \* where the running redraw() returns to
    pixels,        \* redraw()'s local `pixels`: a reference into heap (0: none)
    drawn,         \* the colours the last redraw() has drawn so far
    exited,        \* the process has exited
    calls,         \* calls the caller has made so far
    history,       \* the snapshots as published, oldest first
    dirty          \* a pixel was written since the last publish

stripVars  == <<buffer, heap, displayed, lock>>
simVars    == <<hasSim, initialized, hasFrame, need_update, need_resize>>
callerVars == <<cpc, tmp, lastCall, calls>>
viewerVars == <<vpc, vret, pixels, drawn>>
ghostVars  == <<history, dirty>>
vars == <<stripVars, simVars, callerVars, viewerVars, exited, ghostVars>>

\* The list self._displayed refers to: what getDisplayed() hands out.
Displayed == heap[displayed]

\* A completed call.
Call(op, n, c, rgbw, err, val) ==
    [op |-> op, n |-> n, c |-> c, rgbw |-> rgbw, err |-> err, val |-> val]

\* A constructor whose first snapshot is white.
StripInitWhite(num) ==
    /\ buffer = Repeat(0, num)
    /\ heap = <<Repeat(Colour(255, 255, 255), num)>>
    /\ displayed = 1
    /\ lock = "free"

\* Adafruit_NeoPixel.__init__(num)
StripInit(num) ==
    /\ buffer = Repeat(0, num)
    /\ heap = <<Repeat(Colour(0, 0, 0), num)>>
    /\ displayed = 1
    /\ lock = "free"

Init ==
    /\ \E num \in 1..MaxPixels : StripInit(num) /\ lastCall = Call("__init__", num, 0, <<>>, "none", 0)
    /\ hasSim = FALSE
    /\ initialized = FALSE
    /\ hasFrame = FALSE
    /\ need_update = FALSE
    /\ need_resize = FALSE
    /\ cpc = "idle"
    /\ tmp = <<>>
    /\ vpc = "unstarted"
    /\ vret = "none"
    /\ pixels = 0
    /\ drawn = <<>>
    /\ exited = FALSE
    /\ calls = 0
    /\ history = <<heap[1]>>
    /\ dirty = FALSE

\* ------------------------------------------------- the caller's calls

\* The caller is between calls and the process is alive.
CallerIdle == cpc = "idle" /\ ~exited

\* The caller makes its next call.
NewCall ==
    /\ CallerIdle
    /\ calls < MaxCalls
    /\ calls' = calls + 1

\* The call returns (or raises err) without touching anything else.
Return(op, n, c, rgbw, err, val) ==
    /\ lastCall' = Call(op, n, c, rgbw, err, val)
    /\ cpc' = "idle"

\* A store that keeps only the red, green and blue bytes.
StoreMasked(n, color) ==
    IF InRange(buffer, n)
    THEN [buffer |-> ListSet(buffer, n, color % 16777216), err |-> "none"]
    ELSE [buffer |-> buffer, err |-> "IndexError"]

\* A store that appends the colour when the position is out of range.
StoreGrowing(n, color) ==
    IF InRange(buffer, n)
    THEN [buffer |-> ListSet(buffer, n, color), err |-> "none"]
    ELSE [buffer |-> Append(buffer, color), err |-> "none"]

\* self._buffer[n] = color
Store(n, color) ==
    IF InRange(buffer, n)
    THEN [buffer |-> ListSet(buffer, n, color), err |-> "none"]
    ELSE [buffer |-> buffer, err |-> "IndexError"]

\* The outcome of a write: the buffer, and the ghost that records it.
Written(r) ==
    /\ buffer' = r.buffer
    /\ dirty' = (dirty \/ r.err = "none")

\* setPixelColor that also writes the colour into the displayed list.
setPixelColorThrough(n, color) ==
    /\ NewCall
    /\ Written(Store(n, color))
    /\ heap' = IF InRange(buffer, n)
               THEN [heap EXCEPT ![displayed] = ListSet(@, n, Decode(color))]
               ELSE heap
    /\ Return("setPixelColor", n, color, <<>>, Store(n, color).err, 0)
    /\ UNCHANGED <<displayed, lock, simVars, tmp, viewerVars, exited, history>>

setPixelColor(n, color) ==
    /\ NewCall
    /\ Written(Store(n, color))
    /\ Return("setPixelColor", n, color, <<>>, Store(n, color).err, 0)
    /\ UNCHANGED <<heap, displayed, lock, simVars, tmp, viewerVars, exited, history>>

setPixelColorRGB(n, red, green, blue, white) ==
    /\ NewCall
    /\ Written(Store(n, Color(red, green, blue, white)))
    /\ Return("setPixelColorRGB", n, 0, <<red, green, blue, white>>,
              Store(n, Color(red, green, blue, white)).err, 0)
    /\ UNCHANGED <<heap, displayed, lock, simVars, tmp, viewerVars, exited, history>>

getPixelColor(n) ==
    /\ NewCall
    /\ IF InRange(buffer, n)
       THEN Return("getPixelColor", n, 0, <<>>, "none", ListGet(buffer, n))
       ELSE Return("getPixelColor", n, 0, <<>>, "IndexError", 0)
    /\ UNCHANGED <<stripVars, simVars, tmp, viewerVars, exited, ghostVars>>

numPixels ==
    /\ NewCall
    /\ Return("numPixels", 0, 0, <<>>, "none", Len(buffer))
    /\ UNCHANGED <<stripVars, simVars, tmp, viewerVars, exited, ghostVars>>

\* begin(): Simulation(self) and Thread.start().  A second begin() is left
\* out: the Viewer is a single thread here.
begin ==
    /\ NewCall
    /\ ~hasSim
    /\ hasSim' = TRUE
    /\ initialized' = FALSE
    /\ vpc' = "run"
    /\ Return("begin", 0, 0, <<>>, "none", 0)
    /\ UNCHANGED <<stripVars, hasFrame, need_update, need_resize, tmp,
                   vret, pixels, drawn, exited, ghostVars>>

\* getDisplayed(): `with self._lock:` is entered ...
getDisplayedAcquire ==
    /\ NewCall
    /\ lock = "free"
    /\ lock' = "caller"
    /\ cpc' = "gd_locked"
    /\ UNCHANGED <<buffer, heap, displayed, simVars, tmp, lastCall,
                   viewerVars, exited, ghostVars>>

\* ... and self._displayed is returned as the lock is released.
getDisplayedReturn ==
    /\ cpc = "gd_locked" /\ ~exited
    /\ lock' = "free"
    /\ Return("getDisplayed", 0, 0, <<>>, "none", displayed)
    /\ UNCHANGED <<buffer, heap, displayed, simVars, tmp, calls,
                   viewerVars, exited, ghostVars>>

\* show(): `with self._lock:` is entered and the comprehension starts.
showAcquire ==
    /\ NewCall
    /\ lock = "free"
    /\ lock' = "caller"
    /\ tmp' = <<>>
    /\ cpc' = "show_build"
    /\ UNCHANGED <<buffer, heap, displayed, simVars, lastCall,
                   viewerVars, exited, ghostVars>>

\* show() that overwrites the displayed list element by element.
showBuildInPlace ==
    /\ cpc = "show_build" /\ ~exited
    /\ Len(tmp) < Len(buffer)
    /\ tmp' = Append(tmp, Decode(buffer[Len(tmp) + 1]))
    /\ heap' = [heap EXCEPT ![displayed][Len(tmp) + 1] = Decode(buffer[Len(tmp) + 1])]
    /\ UNCHANGED <<buffer, displayed, lock, simVars, cpc, lastCall, calls,
                   viewerVars, exited, ghostVars>>

\* One element of the comprehension: the next raw colour is decoded.
showBuild ==
    /\ cpc = "show_build" /\ ~exited
    /\ Len(tmp) < Len(buffer)
    /\ tmp' = Append(tmp, Decode(buffer[Len(tmp) + 1]))
    /\ UNCHANGED <<stripVars, simVars, cpc, lastCall, calls,
                   viewerVars, exited, ghostVars>>

\* show() that blanks the raw buffer once it is published.
showPublishAndClear ==
    /\ cpc = "show_build" /\ ~exited
    /\ Len(tmp) = Len(buffer)
    /\ heap' = Append(heap, tmp)
    /\ displayed' = Len(heap) + 1
    /\ history' = Append(history, tmp)
    /\ dirty' = FALSE
    /\ tmp' = <<>>
    /\ cpc' = "show_release"
    /\ buffer' = Repeat(0, Len(buffer))
    /\ UNCHANGED <<lock, simVars, lastCall, calls, viewerVars, exited>>

\* show() that copies the new colours into the list already displayed.
showPublishInPlace ==
    /\ cpc = "show_build" /\ ~exited
    /\ Len(tmp) = Len(buffer)
    /\ heap' = [heap EXCEPT ![displayed] = tmp]
    /\ history' = Append(history, tmp)
    /\ dirty' = FALSE
    /\ tmp' = <<>>
    /\ cpc' = "show_release"
    /\ UNCHANGED <<buffer, displayed, lock, simVars, lastCall, calls, viewerVars, exited>>

\* self._displayed = <the new list>
showPublish ==
    /\ cpc = "show_build" /\ ~exited
    /\ Len(tmp) = Len(buffer)
    /\ heap' = Append(heap, tmp)
    /\ displayed' = Len(heap) + 1
    /\ history' = Append(history, tmp)
    /\ dirty' = FALSE
    /\ tmp' = <<>>
    /\ cpc' = "show_release"
    /\ UNCHANGED <<buffer, lock, simVars, lastCall, calls, viewerVars, exited>>

\* The `with` block is left.
showRelease ==
    /\ cpc = "show_release" /\ ~exited
    /\ lock' = "free"
    /\ cpc' = "show_sim"
    /\ UNCHANGED <<buffer, heap, displayed, simVars, tmp, lastCall, calls,
                   viewerVars, exited, ghostVars>>

\* self._sim.update(): the attribute lookup, then Simulation.update up to
\* the call of self._frame.update().
showSim ==
    /\ cpc = "show_sim" /\ ~exited
    /\ IF ~hasSim
       THEN Return("show", 0, 0, <<>>, "AttributeError", 0)
       ELSE IF ~initialized
       THEN Return("show", 0, 0, <<>>, "none", 0)
       ELSE IF ~hasFrame
       THEN Return("show", 0, 0, <<>>, "AttributeError", 0)
       ELSE cpc' = "show_update" /\ UNCHANGED lastCall
    /\ UNCHANGED <<stripVars, simVars, tmp, calls, viewerVars, exited, ghostVars>>

\* Frame.update()
showUpdate ==
    /\ cpc = "show_update" /\ ~exited
    /\ need_update' = TRUE
    /\ Return("show", 0, 0, <<>>, "none", 1)
    /\ UNCHANGED <<stripVars, hasSim, initialized, hasFrame, need_resize, tmp,
                   calls, viewerVars, exited, ghostVars>>

\* ---------------------------------------------------- the Viewer thread

\* redraw() is called; it returns to `back`.
CallRedraw(back) ==
    /\ vpc' = "rd_lock"
    /\ vret' = back

\* Simulation.run: wx.App(), then Frame.__init__ up to its self.redraw().
runApp ==
    /\ vpc = "run" /\ ~exited
    /\ CallRedraw("frame_flags")
    /\ UNCHANGED <<stripVars, simVars, callerVars, pixels, drawn, exited, ghostVars>>

\* redraw(): getDisplayed() enters `with self._lock:` ...
redrawAcquire ==
    /\ vpc = "rd_lock" /\ ~exited
    /\ lock = "free"
    /\ lock' = "viewer"
    /\ vpc' = "rd_locked"
    /\ UNCHANGED <<buffer, heap, displayed, simVars, callerVars, vret, pixels,
                   drawn, exited, ghostVars>>

\* A redraw that keeps the lock after it has read the list.
redrawReadHolding ==
    /\ vpc = "rd_locked" /\ ~exited
    /\ pixels' = displayed
    /\ drawn' = <<>>
    /\ vpc' = "rd_draw"
    /\ UNCHANGED <<stripVars, simVars, callerVars, vret, exited, ghostVars>>

\* ... and returns self._displayed into `pixels` as the lock is released;
\* dc.Clear() wipes the bitmap.
redrawRead ==
    /\ vpc = "rd_locked" /\ ~exited
    /\ lock' = "free"
    /\ pixels' = displayed
    /\ drawn' = <<>>
    /\ vpc' = "rd_draw"
    /\ UNCHANGED <<buffer, heap, displayed, simVars, callerVars, vret, exited,
                   ghostVars>>

\* A redraw that takes each light's colour from the raw buffer.
redrawLightRaw ==
    /\ vpc = "rd_draw" /\ ~exited
    /\ Len(drawn) < Len(heap[pixels])
    /\ drawn' = Append(drawn, Decode(buffer[Len(drawn) + 1]))
    /\ UNCHANGED <<stripVars, simVars, callerVars, vpc, vret, pixels, exited,
                   ghostVars>>

\* One round of `for i, c in enumerate(pixels)`: a light is drawn.
redrawLight ==
    /\ vpc = "rd_draw" /\ ~exited
    /\ Len(drawn) < Len(heap[pixels])
    /\ drawn' = Append(drawn, heap[pixels][Len(drawn) + 1])
    /\ UNCHANGED <<stripVars, simVars, callerVars, vpc, vret, pixels, exited,
                   ghostVars>>

\* The loop is over: redraw() returns.
redrawReturn ==
    /\ vpc = "rd_draw" /\ ~exited
    /\ Len(drawn) = Len(heap[pixels])
    /\ vpc' = vret
    /\ vret' = "none"
    /\ UNCHANGED <<stripVars, simVars, callerVars, pixels, drawn, exited, ghostVars>>

\* Frame.__init__ after its redraw(): the two flags, the window, the timer.
frameFlags ==
    /\ vpc = "frame_flags" /\ ~exited
    /\ need_resize' = FALSE
    /\ need_update' = FALSE
    /\ vpc' = "run_frame"
    /\ UNCHANGED <<stripVars, hasSim, initialized, hasFrame, callerVars, vret,
                   pixels, drawn, exited, ghostVars>>

\* A run() that sets _initialized before it keeps the frame.
runFrameInitializedFirst ==
    /\ vpc = "run_frame" /\ ~exited
    /\ initialized' = TRUE
    /\ vpc' = "run_initialized"
    /\ UNCHANGED <<stripVars, hasSim, hasFrame, need_update, need_resize,
                   callerVars, vret, pixels, drawn, exited, ghostVars>>

\* Simulation.run: self._frame = <the frame>
runFrame ==
    /\ vpc = "run_frame" /\ ~exited
    /\ hasFrame' = TRUE
    /\ vpc' = "run_initialized"
    /\ UNCHANGED <<stripVars, hasSim, initialized, need_update, need_resize,
                   callerVars, vret, pixels, drawn, exited, ghostVars>>

\* Simulation.run: self._initialized = True, and the main loop is entered.
runInitialized ==
    /\ vpc = "run_initialized" /\ ~exited
    /\ initialized' = TRUE
    /\ vpc' = "mainloop"
    /\ UNCHANGED <<stripVars, hasSim, hasFrame, need_update, need_resize,
                   callerVars, vret, pixels, drawn, exited, ghostVars>>

\* onTimer is entered: `if self._need_resize:` calls resize(), which calls
\* redraw(); otherwise the handler goes on to its second `if`.
onTimer ==
    /\ vpc = "mainloop" /\ ~exited
    /\ IF need_resize
       THEN CallRedraw("timer_resized")
       ELSE vpc' = "timer_update" /\ UNCHANGED vret
    /\ UNCHANGED <<stripVars, simVars, callerVars, pixels, drawn, exited, ghostVars>>

\* onTimer after resize(): self._need_resize = False
onTimerResized ==
    /\ vpc = "timer_resized" /\ ~exited
    /\ need_resize' = FALSE
    /\ vpc' = "timer_update"
    /\ UNCHANGED <<stripVars, hasSim, initialized, hasFrame, need_update,
                   callerVars, vret, pixels, drawn, exited, ghostVars>>

\* onTimer: `if self._need_update:` calls redraw(); otherwise the handler
\* returns to the main loop.
onTimerUpdate ==
    /\ vpc = "timer_update" /\ ~exited
    /\ IF need_update
       THEN CallRedraw("timer_updated")
       ELSE vpc' = "mainloop" /\ UNCHANGED vret
    /\ UNCHANGED <<stripVars, simVars, callerVars, pixels, drawn, exited, ghostVars>>

\* onTimer after redraw(): Refresh() and the flag is cleared.
onTimerUpdated ==
    /\ vpc = "timer_updated" /\ ~exited
    /\ need_update' = FALSE
    /\ vpc' = "mainloop"
    /\ UNCHANGED <<stripVars, hasSim, initialized, hasFrame, need_resize,
                   callerVars, vret, pixels, drawn, exited, ghostVars>>

\* onSize: the window was resized.
onSize ==
    /\ vpc = "mainloop" /\ ~exited
    /\ need_resize' = TRUE
    /\ UNCHANGED <<stripVars, hasSim, initialized, hasFrame, need_update,
                   callerVars, viewerVars, exited, ghostVars>>

\* A click that ends the Viewer thread and leaves the process running.
onClickThreadOnly ==
    /\ vpc = "mainloop" /\ ~exited
    /\ vpc' = "closed"
    /\ exited' = FALSE
    /\ UNCHANGED <<stripVars, simVars, callerVars, vret, pixels, drawn, ghostVars>>

\* A click that starts the Viewer over instead of closing it.
onClickRestart ==
    /\ vpc = "mainloop" /\ ~exited
    /\ vpc' = "run"
    /\ exited' = FALSE
    /\ UNCHANGED <<stripVars, simVars, callerVars, vret, pixels, drawn, ghostVars>>

\* onClick: ExitMainLoop() ends the main loop and sys.exit() ends the
\* process: the SystemExit it raises inside the event handler cannot unwind
\* through the wx dispatcher, which reports it with PyErr_Print(), and that
\* exits the interpreter on SystemExit.
onClick ==
    /\ vpc = "mainloop" /\ ~exited
    /\ vpc' = "closed"
    /\ exited' = TRUE
    /\ UNCHANGED <<stripVars, simVars, callerVars, vret, pixels, drawn, ghostVars>>

\* ------------------------------------------------------- specification

CallerCall ==
    \/ \E n \in Indices, color \in PackedInputs : setPixelColor(n, color)
    \/ \E n \in Indices, ch \in ChannelInputs :
          setPixelColorRGB(n, ch[1], ch[2], ch[3], ch[4])
    \/ \E n \in Indices : getPixelColor(n)
    \/ numPixels
    \/ begin
    \/ getDisplayedAcquire
    \/ showAcquire

\* A call that takes several steps goes on.
CallerStep ==
    \/ getDisplayedReturn
    \/ showBuild
    \/ showPublish
    \/ showRelease
    \/ showSim
    \/ showUpdate

\* The Viewer thread runs: start-up, redraw and the timer.
ViewerStep ==
    \/ runApp
    \/ redrawAcquire
    \/ redrawRead
    \/ redrawLight
    \/ redrawReturn
    \/ frameFlags
    \/ runFrame
    \/ runInitialized
    \/ onTimer
    \/ onTimerResized
    \/ onTimerUpdate
    \/ onTimerUpdated

\* What the user does to the window.
UserEvent ==
    \/ onSize
    \/ onClick

Next == CallerCall \/ CallerStep \/ ViewerStep \/ UserEvent

Spec == Init /\ [][Next]_vars

\* Both threads are scheduled and the timer keeps firing; the caller need
\* not make another call and the user need not touch the window.
LiveSpec == Spec /\ WF_vars(CallerStep) /\ WF_vars(ViewerStep)

\* Channel values for the packing: both ends of a byte, and the values on
\* either side of its top bit.
Channels == {0, 1, 127, 128, 255}

\* White values for the packing.  Python integers are unbounded; the
\* checker's are 32 bits wide, so a packed colour, white << 24 and lower,
\* is representable for a white up to 127.
Whites == {0, 1, 64, 127}

\* Color and the decode of show() on their own: the caller's first call is
\* setPixelColorRGB with any channels, and show() then decodes the strip.
ColorNext ==
    \/ /\ calls = 0
       /\ \E n \in Indices, red, green, blue \in Channels, white \in Whites :
             setPixelColorRGB(n, red, green, blue, white)
    \/ showAcquire
    \/ showBuild
    \/ showPublish
    \/ showRelease
    \/ showSim

ColorSpec == Init /\ [][ColorNext]_vars

\* ------------------------------------------------------------- claims

\* The last call has returned and the next one has not begun.
Returned == cpc = "idle"

\* The calls that write a pixel.
WriteOps == {"setPixelColor", "setPixelColorRGB"}

\* Position n is a pixel of the strip: n is in [0, count).
IsPixel(n) == n >= 0 /\ n < Len(buffer)

\* The red, green and blue bytes of a packed colour, by arithmetic.
Rgb(c) == <<(c \div 65536) % 256, (c \div 256) % 256, c % 256>>

\* The snapshot published last (by show(), or by the constructor).
LastPublished == history[Len(history)]

\* This step is a whole call of `op` by the caller: it begins and returns.
Calls(op) ==
    /\ calls' = calls + 1
    /\ cpc' = "idle"
    /\ lastCall'.op = op

\* This step is the assignment `self._displayed = [...]` of show().
PublishStep == cpc = "show_build" /\ cpc' = "show_release"

\* C1: writes are invisible until published.  Whatever calls were made
\* since, the list getDisplayed() hands out is the snapshot the last
\* show() published (the constructor's all-black one before any show()).
C1_WritesInvisible == Displayed = LastPublished

\* A write that succeeded after a show(), changed the pixel's colour and is
\* not in the displayed list.
C1_Witness ==
    /\ Returned
    /\ lastCall.op \in WriteOps
    /\ lastCall.err = "none"
    /\ Len(history) > 1
    /\ Rgb(ListGet(buffer, lastCall.n)) # ListGet(Displayed, lastCall.n)

\* C2: for every position outside [0, count), negative ones included,
\* setPixelColor, setPixelColorRGB and getPixelColor fail with IndexError
\* and leave the buffer and the snapshot as they were.
C2_OutOfRangeFails ==
    [][((Calls("setPixelColor") \/ Calls("setPixelColorRGB") \/ Calls("getPixelColor"))
           /\ ~IsPixel(lastCall'.n))
          => /\ lastCall'.err = "IndexError"
             /\ buffer' = buffer
             /\ heap' = heap
             /\ displayed' = displayed]_vars

\* C3: right after show(), entry k of the displayed list is the red, green
\* and blue bytes of the raw colour at k, whatever its white byte, for
\* every k of the strip.
C3_ShowPublishesBuffer ==
    (Returned /\ lastCall.op = "show")
    => /\ Len(Displayed) = Len(buffer)
       /\ \A k \in 1..Len(buffer) : Displayed[k] = Rgb(buffer[k])

\* show() returned normally with two different colours on the strip, one
\* of them with a white byte.
C3_Witness ==
    /\ Returned
    /\ lastCall.op = "show"
    /\ lastCall.err = "none"
    /\ \E k, j \in 1..Len(buffer) :
          /\ buffer[k] >= 16777216
          /\ buffer[j] > 0
          /\ Displayed[k] # Displayed[j]

\* C4: on a strip whose begin() was never called, show() publishes the
\* snapshot and returns normally.
C4_ShowWithoutBegin ==
    (Returned /\ lastCall.op = "show" /\ ~hasSim)
    => /\ lastCall.err = "none"
       /\ \A k \in 1..Len(buffer) : Displayed[k] = Rgb(buffer[k])

\* C5: no torn snapshot.  A list that getDisplayed() has handed to the
\* Viewer's redraw() or to the caller is one published snapshot, whole,
\* and stays it while show() runs; what redraw() has drawn from it so far
\* is the beginning of that one snapshot.
C5_NoTornSnapshot ==
    /\ pixels > 0 =>
          /\ heap[pixels] = history[pixels]
          /\ Len(drawn) <= Len(history[pixels])
          /\ \A k \in 1..Len(drawn) : drawn[k] = history[pixels][k]
    /\ (Returned /\ lastCall.op = "getDisplayed") =>
          heap[lastCall.val] = history[lastCall.val]
    /\ Len(Displayed) = Len(buffer)

\* redraw() is half way through the list it was handed while show() is half
\* way through building a list that differs from it.
C5_Witness ==
    /\ vpc = "rd_draw"
    /\ cpc = "show_build"
    /\ Len(drawn) > 0 /\ Len(drawn) < Len(heap[pixels])
    /\ Len(tmp) > 0
    /\ tmp[1] # drawn[1]

\* show() has returned after publishing snapshot v and setting the Frame's
\* redraw flag: the Viewer was initialized when show() signalled it.
Signalled(v) ==
    /\ Returned
    /\ lastCall.op = "show"
    /\ lastCall.val = 1
    /\ displayed = v

\* C6: every publish is eventually rendered.  Once show() has published a
\* snapshot and signalled the running Viewer, a redraw() reads that
\* snapshot or a later one, unless the window is closed first.
C6_EveryPublishRendered ==
    \A v \in 2..(MaxCalls + 1) :
        Signalled(v) ~> (pixels >= v \/ vpc = "closed")

\* setPixelColorRGB(i, 10, 20, 30) on a pixel i was the last call to return.
JustSet102030(i) ==
    /\ lastCall.op = "setPixelColorRGB"
    /\ lastCall.err = "none"
    /\ lastCall.n = i
    /\ IsPixel(i)
    /\ SubSeq(lastCall.rgbw, 1, 3) = <<10, 20, 30>>

\* C7 as stated: after setPixelColorRGB(i, 10, 20, 30) and then show(), the
\* displayed entry i is (10, 20, 30) and every other displayed entry is what
\* it was before the two calls.
C7_OthersUnchanged ==
    [][\A i \in Indices :
          (JustSet102030(i) /\ PublishStep)
          => /\ Displayed'[i + 1] = <<10, 20, 30>>
             /\ \A j \in 1..Len(buffer) :
                   j # i + 1 => Displayed'[j] = Displayed[j]]_vars

\* C7 amended: after setPixelColorRGB(i, 10, 20, 30) and then show(), the
\* displayed entry i is (10, 20, 30) and every other displayed entry j is
\* the colour stored at j: what it was before the two calls when the raw
\* colour at j was already published, the pending write's colour otherwise.
C7_OthersPublished ==
    [][\A i \in Indices :
          (JustSet102030(i) /\ PublishStep)
          => /\ Displayed'[i + 1] = <<10, 20, 30>>
             /\ \A j \in 1..Len(buffer) :
                   j # i + 1 =>
                      /\ Displayed'[j] = Rgb(buffer[j])
                      /\ Rgb(buffer[j]) = Displayed[j] => Displayed'[j] = Displayed[j]]_vars

\* show() has just published after setPixelColorRGB(i, 10, 20, 30), and
\* another pixel, written before the two calls, shows its new colour too.
C7_Witness ==
    /\ cpc = "show_release"
    /\ \E i \in Indices :
          /\ JustSet102030(i)
          /\ Displayed[i + 1] = <<10, 20, 30>>
          /\ \E j \in 1..Len(buffer) :
                j # i + 1 /\ Displayed[j] # history[Len(history) - 1][j]

\* C8: right after a strip of N pixels is constructed, numPixels() is N,
\* every pixel's raw colour is 0 (and getPixelColor, made as the first
\* call, returns 0), and the displayed list is N entries of black.
C8_InitialState ==
    /\ (Returned /\ lastCall.op = "__init__") =>
          /\ Len(buffer) = lastCall.n
          /\ \A i \in 0..(lastCall.n - 1) : InRange(buffer, i) /\ ListGet(buffer, i) = 0
          /\ Len(Displayed) = lastCall.n
          /\ \A k \in 1..Len(Displayed) : Displayed[k] = <<0, 0, 0>>
    /\ (Returned /\ calls = 1 /\ lastCall.op = "getPixelColor" /\ IsPixel(lastCall.n)) =>
          lastCall.err = "none" /\ lastCall.val = 0
    /\ (Returned /\ calls = 1 /\ lastCall.op = "numPixels") =>
          lastCall.val = Len(history[1])

\* A strip of more than one pixel has just been constructed.
C8_Witness ==
    /\ Returned
    /\ lastCall.op = "__init__"
    /\ lastCall.n > 1
    /\ calls = 0

\* C9: read-after-write on the raw buffer.  setPixelColor(i, c) on a pixel
\* i stores c at i and leaves every other pixel alone; setPixelColorRGB(i,
\* r, g, b, w) stores the packed (w<<24)|(r<<16)|(g<<8)|b the same way;
\* getPixelColor(i) returns what is stored at i, so that after
\* setPixelColor(i, c) it returns c, shown or not.
C9_ReadAfterWrite ==
    [][/\ (Calls("setPixelColor") /\ IsPixel(lastCall'.n)) =>
             buffer' = [buffer EXCEPT ![lastCall'.n + 1] = lastCall'.c]
       /\ (Calls("setPixelColorRGB") /\ IsPixel(lastCall'.n)) =>
             buffer' = [buffer EXCEPT ![lastCall'.n + 1] =
                           lastCall'.rgbw[4] * 16777216 + lastCall'.rgbw[1] * 65536
                           + lastCall'.rgbw[2] * 256 + lastCall'.rgbw[3]]
       /\ (Calls("getPixelColor") /\ IsPixel(lastCall'.n)) =>
             /\ lastCall'.err = "none"
             /\ lastCall'.val = buffer[lastCall'.n + 1]
             /\ buffer' = buffer
             /\ (lastCall.op = "setPixelColor" /\ lastCall.n = lastCall'.n)
                   => lastCall'.val = lastCall.c]_vars

\* getPixelColor has returned a colour that was written and is not published.
C9_Witness ==
    /\ Returned
    /\ lastCall.op = "getPixelColor"
    /\ lastCall.err = "none"
    /\ lastCall.val >= 16777216
    /\ IsPixel(lastCall.n)
    /\ Displayed[lastCall.n + 1] # Rgb(lastCall.val)

\* C10: show() is idempotent on an unchanged buffer.  A show() that comes
\* after another with no write in between publishes a snapshot equal,
\* entry by entry, to the one displayed before it.
C10_ShowIdempotent ==
    [][(PublishStep /\ ~dirty /\ Len(history) > 1)
          => /\ Len(Displayed') = Len(Displayed)
             /\ \A k \in 1..Len(Displayed) : Displayed'[k] = Displayed[k]]_vars

\* A second show() has just published, right after the first returned, a
\* snapshot that is not all black.
C10_Witness ==
    /\ cpc = "show_release"
    /\ lastCall.op = "show"
    /\ Len(history) > 2
    /\ \E k \in 1..Len(Displayed) : Displayed[k] # <<0, 0, 0>>
    /\ Displayed = history[Len(history) - 1]

\* C11: pack/decode round trip.  For channel values r, g, b, w of a byte,
\* the decode of show() applied to Color(r, g, b, w) is exactly (r, g, b),
\* whatever w is: both on the colour as setPixelColorRGB stored it and in
\* the list show() then publishes.
C11_RoundTrip ==
    (lastCall.op = "setPixelColorRGB" /\ lastCall.err = "none") =>
        /\ Decode(ListGet(buffer, lastCall.n)) = SubSeq(lastCall.rgbw, 1, 3)
        /\ cpc \in {"show_release", "show_sim"} =>
              ListGet(Displayed, lastCall.n) = SubSeq(lastCall.rgbw, 1, 3)

\* show() has published a colour packed from three different channel values
\* under a white of 127.
C11_Witness ==
    /\ cpc = "show_release"
    /\ lastCall.op = "setPixelColorRGB"
    /\ lastCall.err = "none"
    /\ lastCall.rgbw = <<255, 1, 128, 127>>
    /\ ListGet(Displayed, lastCall.n) = <<255, 1, 128>>

\* C12: the Viewer renders only published data.  What a redraw() has drawn
\* is the beginning of one published snapshot (a show()'s, or the
\* constructor's all-black one) and, once the redraw() is over, the whole
\* of it: never a colour that was written and not yet published.
C12_RendersPublished ==
    pixels > 0 =>
        \E v \in 1..Len(history) :
            /\ Len(drawn) <= Len(history[v])
            /\ \A k \in 1..Len(drawn) : drawn[k] = history[v][k]
            /\ vpc # "rd_draw" => drawn = history[v]

\* The timer's redraw() has drawn a snapshot that show() published, while a
\* later write to the buffer waits unpublished and is not on the screen.
C12_Witness ==
    /\ vpc = "timer_updated"
    /\ pixels > 1
    /\ drawn = history[pixels]
    /\ dirty
    /\ \E k \in 1..Len(buffer) : Rgb(buffer[k]) # drawn[k]

\* C13: dismissal is fatal to the whole process.  Once the click handler
\* has run, nothing takes another step: the Viewer stays closed and the
\* caller's thread neither begins a call nor goes on with the one it is in.
C13_DismissalFatal ==
    [][vpc = "closed" => (vpc' = "closed" /\ UNCHANGED <<stripVars, simVars, callerVars, ghostVars>>)]_vars

\* The window was closed while show() was building its list, with calls
\* the caller had yet to make.
C13_Witness ==
    /\ vpc = "closed"
    /\ exited
    /\ cpc = "show_build"
    /\ Len(tmp) < Len(buffer)
    /\ calls < MaxCalls

\* The Viewer's lifecycle state at position p, inside a redraw() that
\* returns to r: 0 Uninitialized, 1 Starting (run() up to the main loop),
\* 2 Running (the main loop and its handlers), 3 Closed.
ViewerPhase(p, r) ==
    CASE p = "unstarted" -> 0
      [] p \in {"run", "frame_flags", "run_frame", "run_initialized"} -> 1
      [] p \in {"rd_lock", "rd_locked", "rd_draw"} -> IF r = "frame_flags" THEN 1 ELSE 2
      [] p \in {"mainloop", "timer_resized", "timer_update", "timer_updated"} -> 2
      [] p = "closed" -> 3

\* C14: the Viewer's lifecycle.  Its state stays or moves one stage on:
\* Uninitialized to Starting by begin(), Starting to Running once the frame
\* is built and _initialized set, Running to Closed by the click; a closed
\* Viewer stays closed and draws nothing more.
C14_Lifecycle ==
    [][/\ ViewerPhase(vpc', vret') \in {ViewerPhase(vpc, vret), ViewerPhase(vpc, vret) + 1}
       /\ (ViewerPhase(vpc, vret) = 0 /\ ViewerPhase(vpc', vret') = 1) => Calls("begin")
       /\ (ViewerPhase(vpc, vret) = 1 /\ ViewerPhase(vpc', vret') = 2) =>
              (hasFrame' /\ initialized' /\ vpc' = "mainloop")
       /\ (ViewerPhase(vpc, vret) = 2 /\ ViewerPhase(vpc', vret') = 3) => vpc = "mainloop"
       /\ ViewerPhase(vpc, vret) = 3 =>
              (vpc' = "closed" /\ pixels' = pixels /\ drawn' = drawn)]_vars

\* The window was closed with a redraw pending: show() had published a
\* snapshot and set the flag, and no redraw() has read that snapshot.
C14_Witness ==
    /\ vpc = "closed"
    /\ need_update
    /\ pixels > 0
    /\ pixels < displayed

C16_CountFixed ==
    /\ Len(buffer) = Len(history[1])
    /\ Len(Displayed) = Len(history[1])
    /\ (Returned /\ lastCall.op = "numPixels") => lastCall.val = Len(history[1])
    /\ (Returned /\ lastCall.op = "getDisplayed") =>
          Len(heap[lastCall.val]) = Len(history[1])

\* numPixels() has returned on a strip of more than one pixel, as the last
\* of the caller's calls, after a show() and with a later write pending.
C16_Witness ==
    /\ Returned
    /\ lastCall.op = "numPixels"
    /\ lastCall.val > 1
    /\ calls = MaxCalls
    /\ Len(history) > 1
    /\ dirty

\* show() has completed, signalling the running Viewer, and no redraw()
\* has read its snapshot yet.
ShowOutstanding ==
    /\ Returned
    /\ lastCall.op = "show"
    /\ lastCall.val = 1
    /\ pixels < displayed

\* C17: redraw requests are coalesced.  When the timer handler comes to
\* its redraw check with a completed show() not yet rendered, however many
\* there were, it performs one redraw, of the snapshot displayed then, and
\* returns to the main loop; a handler that finds a flag unset does not
\* redraw for it.
C17_Coalesced ==
    [][/\ (vpc = "timer_update" /\ vpc' # vpc /\ ShowOutstanding) =>
              (vpc' = "rd_lock" /\ vret' = "timer_updated")
       /\ (vpc = "rd_locked" /\ vret = "timer_updated" /\ vpc' # vpc) =>
              pixels' = displayed
       /\ (vpc = "timer_updated" /\ vpc' # vpc) => vpc' = "mainloop"
       /\ (vpc = "mainloop" /\ vpc' \notin {"mainloop", "closed"} /\ ~need_resize) =>
              vpc' = "timer_update"
       /\ (vpc = "timer_update" /\ vpc' # vpc /\ ~need_update) =>
              vpc' = "mainloop"]_vars

\* C18: a snapshot handed out stays stable.  No step alters a list that
\* was ever displayed, so a list getDisplayed() returned keeps its entries
\* through every later setPixelColor, setPixelColorRGB and show(); show()
\* installs a list that did not exist before.
C18_SnapshotStable ==
    [][/\ \A r \in 1..Len(heap) : Len(heap') >= r /\ heap'[r] = heap[r]
       /\ PublishStep => (displayed' > Len(heap) /\ displayed' <= Len(heap'))]_vars

\* getDisplayed() returned a list, a pixel was written, and show() has just
\* installed a list that differs from the returned one, which still holds
\* the snapshot it held when it was returned.
C18_Witness ==
    /\ cpc = "show_release"
    /\ lastCall.op = "getDisplayed"
    /\ lastCall.val < displayed
    /\ heap[lastCall.val] # Displayed
    /\ heap[lastCall.val] = history[lastCall.val]

\* show() has returned normally after publishing snapshot v on a strip
\* whose begin() was called, without signalling: Simulation.update found
\* _initialized false, the Viewer thread still starting.
ShownWhileStarting(v) ==
    /\ Returned
    /\ lastCall.op = "show"
    /\ lastCall.err = "none"
    /\ lastCall.val = 0
    /\ displayed = v

\* C19: no publish is lost during the Viewer's start-up.  Once a show()
\* made after begin() and before _initialized is set has published a
\* snapshot, a redraw() reads that snapshot or a later one, unless the
\* window is closed first; no further show() is needed.
C19_StartupPublishRendered ==
    \A v \in 2..(MaxCalls + 1) :
        ShownWhileStarting(v) ~> (pixels >= v \/ vpc = "closed")

\* C20: after begin(), show() never touches an unbuilt Viewer.  Whenever
\* _initialized is true the frame exists, with its constructor over; a
\* show() on a strip whose begin() was called never raises; it either
\* returns from Simulation.update without effect, _initialized being
\* false, or goes on to set the flag of the constructed frame.
C20_NoUnbuiltViewer ==
    /\ initialized => (hasFrame /\ ViewerPhase(vpc, vret) >= 2)
    /\ cpc = "show_update" => (initialized /\ hasFrame)
    /\ (Returned /\ lastCall.op = "show" /\ hasSim) =>
          (lastCall.err = "none" /\ (lastCall.val = 1 => hasFrame))

\* show() is about to set the flag of the frame, a moment after the Viewer
\* thread set _initialized and before its first timer tick.
C20_Witness ==
    /\ cpc = "show_update"
    /\ vpc = "mainloop"
    /\ pixels < displayed
    /\ ~need_update

====
